---- MODULE Spec2Model ----
(***************************************************************************)
(* State-machine model of src/api/socketManager.ts (hyperion-history-api): *)
(* the SocketManager relay-link handlers, the per-socket request handlers  *)
(* and the two history backfill loops streamPastDeltas/streamPastActions.  *)
(*                                                                         *)
(* JavaScript runs each handler to its next await atomically, so one       *)
(* action is one run of a handler from an event (or from the resolution of *)
(* an await) to the next await or to its end. Every await yields, also the *)
(* await of an async function that itself awaited nothing, so the return   *)
(* from addBlockRangeOpts to streamPastX and the return from streamPastX   *)
(* to the request handler are steps of their own.                          *)
(***************************************************************************)
EXTENDS Integers, Sequences, FiniteSets, TLC

\* ------------------------------------------------------------------------
\* Program constants
\* ------------------------------------------------------------------------

\* size: 20 of fastify.elastic.search (lines 115, 195)
PageSize == 20

\* init_response.body.hits.total.value < 1000 (line 226)
TooLarge == 1000

\* ------------------------------------------------------------------------
\* Bounds of the model
\* ------------------------------------------------------------------------

\* socket ids the gateway may see
NumClients == 2

\* stream requests issued in one behaviour of the gateway specification
MaxReqs == 2

\* relay 'connect'/'disconnect' events delivered in one behaviour
MaxRelayEvents == 3

\* full pages of the small result sets of the backfill specification
MaxPages == 2

\* relay 'delta'/'trace' events delivered in one behaviour
MaxLive == 2

Clients == 1..NumClients

\* ------------------------------------------------------------------------
\* Values: start_from / read_until are number | string (lines 13-14, 27-28)
\* ------------------------------------------------------------------------

Num(n) == [t |-> "number", n |-> n, s |-> ""]

Str(s) == [t |-> "string", n |-> 0, s |-> s]

\* JavaScript ToBoolean of a number | string, as used by if (data.start_from)
Truthy(x) == IF x.t = "number" THEN x.n # 0 ELSE x.s # ""

\* An absent bound of a range (the property was never assigned).
None == [t |-> "undefined", n |-> 0, s |-> ""]

\* typeof x === 'string' && x !== '' (lines 37, 44)
IsString(x) == x.t = "string" /\ x.s # ""

\* typeof x === 'number' && x !== 0 (lines 51, 65)
IsNumber(x) == x.t = "number" /\ x.n # 0

\* Field names are character sequences, so that startsWith is computed.
AtField == <<"@", "x">>

ActDataTo == <<"a", "c", "t", ".", "d", "a", "t", "a", ".", "t", "o">>

ActName == <<"a", "c", "t", ".", "n", "a", "m", "e">>

ActDataPrefix == <<"a", "c", "t", ".", "d", "a", "t", "a">>

\* String.prototype.startsWith
StartsWith(s, p) == Len(s) >= Len(p) /\ SubSeq(s, 1, Len(p)) = p

Min(a, b) == IF a <= b THEN a ELSE b

\* ------------------------------------------------------------------------
\* The search backend (collaborator): a fixed result set of `total` documents
\* in sort order; document i is the i-th of the sorted result.
\* ------------------------------------------------------------------------

\* The sort key of document i: block_num for deltas (several deltas share a
\* block), global_sequence for actions (unique).
SortKey(kind, i) == IF kind = "delta" THEN (i + 1) \div 2 ELSE i

\* The value of a field of document i's _source.
FieldValue(i, field) ==
    IF field = ActDataTo THEN (IF i % 3 = 0 THEN "bob" ELSE "alice")
    ELSE IF field = ActName THEN "transfer"
    ELSE ""

\* The page the cursor returns after `counter` documents were retrieved.
Page(total, counter) ==
    [i \in 1..Min(PageSize, total - counter) |-> counter + i]

\* The characters of the string values the model uses.
Chars(s) ==
    CASE s = "bob" -> <<"b", "o", "b">>
      [] s = "alice" -> <<"a", "l", "i", "c", "e">>
      [] s = "transfer" -> <<"t", "r", "a", "n", "s", "f", "e", "r">>
      [] s = "x" -> <<"x">>
      [] s = "bo*" -> <<"b", "o", "*">>
      [] s = "*li*" -> <<"*", "l", "i", "*">>
      [] s = "trans*" -> <<"t", "r", "a", "n", "s", "*">>
      [] OTHER -> << >>

\* The value contains the wildcard marker.
HasWildcard(p) == \E i \in 1..Len(p) : p[i] = "*"

\* The value without its wildcard markers.
StripWildcard(p) == SelectSeq(p, LAMBDA ch : ch # "*")

\* p occurs in s.
Contains(s, p) ==
    \E i \in 0..(Len(s) - Len(p)) : SubSeq(s, i + 1, i + Len(p)) = p

\* A field value v against a filter value p: exact match, unless p holds a
\* wildcard marker; then v must start with the rest of p when the marker
\* only follows it, and contain it otherwise.
Matches(v, p) ==
    IF ~HasWildcard(p) THEN v = p
    ELSE IF p[1] # "*" THEN StartsWith(v, StripWildcard(p))
    ELSE Contains(v, StripWildcard(p))

\* checkFilter of helpers/common_functions: the record's field against the
\* filter's value.
checkFilter(filter, doc) ==
    Matches(Chars(FieldValue(doc, filter.field)), Chars(filter.value))

\* ------------------------------------------------------------------------
\* Query construction (addBlockRangeOpts 31-89, addTermMatch 91-97, and the
\* clauses of streamPastDeltas 107-109 and streamPastActions 155-187)
\* ------------------------------------------------------------------------

\* One element of search_body.query.bool.must. `name` is the field of a
\* clause the code names itself, `field` the field of a client filter.
Clause(kind, name, field, gte, lte, value) ==
    [clause |-> kind, name |-> name, field |-> field,
     gte |-> gte, lte |-> lte, value |-> value]

\* let timeRange; let blockRange; (lines 33-34)
NoRange == [set |-> FALSE, gte |-> None, lte |-> None]

\* let head; (line 35)
NoHead == [set |-> FALSE, n |-> 0]

\* Mutant: the empty string taken for a timestamp bound.
timeRangeOf_AnyString(data) ==
    LET a == IF data.start_from.t = "string"
             THEN [NoRange EXCEPT !.set = TRUE, !.gte = data.start_from]
             ELSE NoRange
    IN  IF data.read_until.t = "string"
        THEN [a EXCEPT !.set = TRUE, !.lte = data.read_until]
        ELSE a

\* timeRange after lines 37-49.
timeRangeOf(data) ==
    LET a == IF IsString(data.start_from)
             THEN [NoRange EXCEPT !.set = TRUE, !.gte = data.start_from]
             ELSE NoRange
    IN  IF IsString(data.read_until)
        THEN [a EXCEPT !.set = TRUE, !.lte = data.read_until]
        ELSE a

\* !head (lines 56, 70): undefined and 0 are both falsy.
HeadMissing(head) == ~head.set \/ head.n = 0

\* No call of addBlockRangeOpts.
NoCall ==
    [pc |-> "none", start_from |-> Num(0), read_until |-> Num(0),
     timeRange |-> NoRange, blockRange |-> NoRange, head |-> NoHead,
     lookups |-> 0, must |-> << >>]

\* The locals on entry, after lines 33-49.
EnterCall(data, must) ==
    [pc |-> "start_from", start_from |-> data.start_from,
     read_until |-> data.read_until, timeRange |-> timeRangeOf(data),
     blockRange |-> NoRange, head |-> NoHead, lookups |-> 0, must |-> must]

\* Lines 79-88: the ranges that were set are pushed, timestamp first.
pushRanges(c) ==
    LET t == IF c.timeRange.set
             THEN <<Clause("range", "@timestamp", << >>,
                           c.timeRange.gte, c.timeRange.lte, "")>>
             ELSE << >>
        b == IF c.blockRange.set
             THEN <<Clause("range", "block_num", << >>,
                           c.blockRange.gte, c.blockRange.lte, "")>>
             ELSE << >>
    IN  [c EXCEPT !.pc = "done", !.must = c.must \o t \o b]

\* Lines 65-77 up to the await of get_info, then lines 79-88.
readUntilStep(c) ==
    IF ~IsNumber(c.read_until) THEN pushRanges(c)
    ELSE LET c1 == [c EXCEPT !.blockRange.set = TRUE]
         IN  IF c.read_until.n < 0
             THEN IF HeadMissing(c.head)
                  THEN [c1 EXCEPT !.pc = "get_info_until"]
                  ELSE pushRanges([c1 EXCEPT !.blockRange.lte =
                                        Num(c.head.n + c.read_until.n)])
             ELSE pushRanges([c1 EXCEPT !.blockRange.lte = c.read_until])

\* Lines 51-63 up to the await of get_info, then on to read_until.
startFromStep(c) ==
    IF ~IsNumber(c.start_from) THEN readUntilStep(c)
    ELSE LET c1 == [c EXCEPT !.blockRange.set = TRUE]
         IN  IF c.start_from.n < 0
             THEN IF HeadMissing(c.head)
                  THEN [c1 EXCEPT !.pc = "get_info_start"]
                  ELSE readUntilStep([c1 EXCEPT !.blockRange.gte =
                                        Num(c.head.n + c.start_from.n)])
             ELSE readUntilStep([c1 EXCEPT !.blockRange.gte = c.start_from])

\* addBlockRangeOpts(data, search_body, fastify) run to its first await of
\* get_info, or to its end (pc "done") when it awaits nothing.
addBlockRangeOpts(data, must) == startFromStep(EnterCall(data, must))

\* get_info resolves with head_block_num = h (lines 57-59, 71-73) and the
\* function runs on to its next await or to its end.
getInfoResolved(c, h) ==
    LET c1 == [c EXCEPT !.head = [set |-> TRUE, n |-> h], !.lookups = @ + 1]
    IN  IF c.pc = "get_info_start"
        THEN readUntilStep([c1 EXCEPT !.blockRange.gte = Num(h + c.start_from.n)])
        ELSE pushRanges([c1 EXCEPT !.blockRange.lte = Num(h + c.read_until.n)])

\* addTermMatch (lines 91-97)
addTermMatch(name, value) ==
    IF value # "*" /\ value # ""
    THEN <<Clause("term", name, << >>, None, None, value)>>
    ELSE << >>

\* deltaQueryFields.forEach (lines 99, 107-109)
deltaTerms(data) ==
    addTermMatch("code", data.code) \o addTermMatch("table", data.table)
    \o addTermMatch("scope", data.scope) \o addTermMatch("payer", data.payer)

\* account, contract and action of streamPastActions (lines 155-172)
actionTerms(data) ==
    (IF data.account # ""
     THEN <<Clause("should", "notified|act.authorization.actor", << >>,
                   None, None, data.account)>>
     ELSE << >>)
    \o (IF data.contract # "*" /\ data.contract # ""
        THEN <<Clause("term", "act.account", << >>, None, None, data.contract)>>
        ELSE << >>)
    \o (IF data.action # "*" /\ data.action # ""
        THEN <<Clause("term", "act.name", << >>, None, None, data.action)>>
        ELSE << >>)

\* ------------------------------------------------------------------------
\* State
\* ------------------------------------------------------------------------
VARIABLES
    relay,          \* this.relay: [defined, connected]
    relay_restored, \* this.relay_restored
    relay_down,     \* this.relay_down
    nRelayEvents,   \* relay 'connect'/'disconnect' events delivered so far
    statusLog,      \* this.io.emit('status', ...) broadcasts, in order
    relayOut,       \* this.relay.emit('event', ...) calls, in order
    sock,           \* each socket id: "idle", "connected" or "disconnected"
    inbox,          \* per socket: handshake, status and live messages received
    reqs,           \* the stream requests received, in order of arrival
    nLive,          \* relay 'delta'/'trace' events delivered so far
    rangeCall       \* a direct call of addBlockRangeOpts and its locals

vars == <<relay, relay_restored, relay_down, nRelayEvents, statusLog,
          relayOut, sock, inbox, reqs, nLive, rangeCall>>

\* this.io.sockets.sockets
sockets == {c \in Clients : sock[c] = "connected"}

\* The state after the constructor (lines 242-243, 247-314): startRelay has
\* not run, so this.relay is undefined.
Init ==
    /\ relay = [defined |-> FALSE, connected |-> FALSE]
    /\ relay_restored = TRUE
    /\ relay_down = FALSE
    /\ nRelayEvents = 0
    /\ statusLog = << >>
    /\ relayOut = << >>
    /\ sock = [c \in Clients |-> "idle"]
    /\ inbox = [c \in Clients |-> << >>]
    /\ reqs = << >>
    /\ nLive = 0
    /\ rangeCall = NoCall

\* this.io.emit('status', s): every connected socket receives s.
Broadcast(log) ==
    [c \in Clients |-> IF sock[c] = "connected" THEN inbox[c] \o log ELSE inbox[c]]

\* ------------------------------------------------------------------------
\* Live relay link (startRelay, lines 316-335)
\* ------------------------------------------------------------------------

\* this.relay = io(this.url, ...): the socket exists, not yet connected.
startRelay ==
    /\ ~relay.defined
    /\ relay' = [defined |-> TRUE, connected |-> FALSE]
    /\ UNCHANGED <<relay_restored, relay_down, nRelayEvents, statusLog,
                   relayOut, sock, inbox, reqs>>
    /\ UNCHANGED <<nLive, rangeCall>>

\* Mutant: the 'connect' handler without its if (this.relay_down) guard.
OnRelayConnect_Unguarded(down) == <<"relay_restored">>

\* The statuses the 'connect' handler broadcasts (lines 323-327).
OnRelayConnect(down) == IF down THEN <<"relay_restored">> ELSE << >>

\* relay 'connect' event (lines 321-328); socket.io-client sets
\* relay.connected before it emits 'connect'.
RelayConnect ==
    /\ relay.defined
    /\ nRelayEvents < MaxRelayEvents
    /\ nRelayEvents' = nRelayEvents + 1
    /\ relay' = [relay EXCEPT !.connected = TRUE]
    /\ relay_restored' = (IF relay_down THEN TRUE ELSE relay_restored)
    /\ relay_down' = (IF relay_down THEN FALSE ELSE relay_down)
    /\ statusLog' = statusLog \o OnRelayConnect(relay_down)
    /\ inbox' = Broadcast(OnRelayConnect(relay_down))
    /\ UNCHANGED <<relayOut, sock, reqs>>
    /\ UNCHANGED <<nLive, rangeCall>>

\* Mutant: the 'disconnect' handler leaving relay_restored as it is.
DisconnectFlags_DownOnly == [down |-> TRUE, restored |-> relay_restored]

\* The flags the 'disconnect' handler assigns (lines 333-334).
DisconnectFlags == [down |-> TRUE, restored |-> FALSE]

\* relay 'disconnect' event (lines 330-335): the broadcast is unconditional.
RelayDisconnect ==
    /\ relay.defined
    /\ nRelayEvents < MaxRelayEvents
    /\ nRelayEvents' = nRelayEvents + 1
    /\ relay' = [relay EXCEPT !.connected = FALSE]
    /\ statusLog' = Append(statusLog, "relay_down")
    /\ inbox' = Broadcast(<<"relay_down">>)
    /\ relay_down' = DisconnectFlags.down
    /\ relay_restored' = DisconnectFlags.restored
    /\ UNCHANGED <<relayOut, sock, reqs>>
    /\ UNCHANGED <<nLive, rangeCall>>

\* The message emitToClient emits: {type, mode: 'live', message} (lines
\* 363-367).
LiveMessage(type) ==
    IF type = "delta_trace" THEN "live delta_trace" ELSE "live action_trace"

\* Mutant: the live message emitted to every connected socket.
emitToClient_Broadcast(target, type) == Broadcast(<<LiveMessage(type)>>)

\* emitToClient (lines 361-369): the message goes to the socket whose id is
\* traceData.client if this server holds it, to nobody otherwise.
emitToClient(target, type) ==
    IF target \in sockets
    THEN [inbox EXCEPT ![target] = Append(@, LiveMessage(type))]
    ELSE inbox

\* The type a relay event is forwarded as (lines 338, 342).
LiveType(event) == IF event = "delta" THEN "delta_trace" ELSE "action_trace"

\* relay 'delta' / 'trace' event for client id `target` (lines 337-343).
RelayLive(event, target) ==
    /\ relay.defined /\ relay.connected
    /\ nLive < MaxLive
    /\ nLive' = nLive + 1
    /\ inbox' = emitToClient(target, LiveType(event))
    /\ UNCHANGED <<relay, relay_restored, relay_down, nRelayEvents, statusLog,
                   relayOut, sock, reqs, rangeCall>>

\* ------------------------------------------------------------------------
\* Client connections ('connection' handler, lines 260-276 and 304-311)
\* ------------------------------------------------------------------------

\* An event passed to this.relay.emit('event', ...).
RelayEvent(type, c, r, n) == [type |-> type, client |-> c, req |-> r, counter |-> n]

\* Mutant: a connecting client is also told that the relay is down.
ConnectionMessages_WithStatus ==
    IF relay_down THEN <<"handshake", "relay_down">> ELSE <<"handshake">>

\* What the 'connection' handler emits to the new socket (lines 266-269).
ConnectionMessages == <<"handshake">>

\* A client connects: handshake to the socket, client_count to the relay if
\* this.relay is set (lines 266-276).
ClientConnect(c) ==
    /\ sock[c] = "idle"
    /\ sock' = [sock EXCEPT ![c] = "connected"]
    /\ inbox' = [inbox EXCEPT ![c] = @ \o ConnectionMessages]
    /\ relayOut' = IF relay.defined
                   THEN Append(relayOut,
                               RelayEvent("client_count", 0, 0, Cardinality(sockets) + 1))
                   ELSE relayOut
    /\ UNCHANGED <<relay, relay_restored, relay_down, nRelayEvents, statusLog, reqs>>
    /\ UNCHANGED <<nLive, rangeCall>>

\* socket 'disconnect' (lines 304-311): socket.connected is false from here
\* on; the relay is told. With this.relay undefined the emit throws and no
\* event leaves.
ClientDisconnect(c) ==
    /\ sock[c] = "connected"
    /\ sock' = [sock EXCEPT ![c] = "disconnected"]
    /\ relayOut' = IF relay.defined
                   THEN Append(relayOut, RelayEvent("client_disconnected", c, 0, 0))
                   ELSE relayOut
    /\ UNCHANGED <<relay, relay_restored, relay_down, nRelayEvents, statusLog,
                   inbox, reqs>>
    /\ UNCHANGED <<nLive, rangeCall>>

\* ------------------------------------------------------------------------
\* Registration with the relay (emitToRelay, lines 371-383)
\* ------------------------------------------------------------------------

\* Mutant: emitToRelay testing the health flag instead of the socket.
RelayLinkUp_Flag == ~relay_down

\* this.relay.connected (line 372)
RelayLinkUp == relay.connected

RequestType(kind) == IF kind = "delta" THEN "delta_request" ELSE "action_request"

\* The request after emitToRelay ran for it: a TypeError when this.relay is
\* undefined (caught by the handler, lines 285 and 298), the registration
\* sent and its acknowledgement awaited, or callback('STREAMING_OFFLINE').
emitToRelay(r) ==
    IF ~relay.defined THEN [r EXCEPT !.pc = "failed", !.err = "TypeError"]
    ELSE IF RelayLinkUp THEN [r EXCEPT !.pc = "ack"]
    ELSE [r EXCEPT !.pc = "done", !.cb = "STREAMING_OFFLINE"]

\* What emitToRelay passes to this.relay.emit for request number id.
emitToRelayOut(r, id) ==
    IF relay.defined /\ RelayLinkUp
    THEN Append(relayOut, RelayEvent(RequestType(r.kind), r.client, id, 0))
    ELSE relayOut

\* ------------------------------------------------------------------------
\* Historical backfill (streamPastDeltas 101-145, streamPastActions 147-236)
\* ------------------------------------------------------------------------

\* Filter classification of streamPastActions (lines 174-187): the filters
\* evaluated per record after retrieval.
onDemandFilters(filters) ==
    SelectSeq(filters, LAMBDA f :
        /\ f.field # << >> /\ f.value # ""
        /\ ~(StartsWith(f.field, <<"@">>) /\ ~StartsWith(f.field, ActDataPrefix)))

\* The filters pushed to the backend as term clauses (lines 178-181).
pushedFilters(filters) ==
    SelectSeq(filters, LAMBDA f :
        /\ f.field # << >> /\ f.value # ""
        /\ StartsWith(f.field, <<"@">>) /\ ~StartsWith(f.field, ActDataPrefix))

\* The term clauses of the pushed filters (lines 179-181).
filterTerms(filters) ==
    [k \in 1..Len(pushedFilters(filters)) |->
        Clause("term", "", pushedFilters(filters)[k].field, None, None,
               pushedFilters(filters)[k].value)]

\* search_body.query.bool.must when the initial search is issued: the
\* ranges of addBlockRangeOpts, then the clauses of the stream's kind.
searchBody(kind, data, must) ==
    IF kind = "delta" THEN must \o deltaTerms(data)
    ELSE must \o actionTerms(data) \o filterTerms(data.filters)

\* Mutant: a record allowed as soon as some on-demand filter matches.
enqueuedMessages_Some(r, hits) ==
    IF r.kind = "delta" \/ r.onDemand = << >> THEN hits
    ELSE SelectSeq(hits, LAMBDA doc :
            \E k \in 1..Len(r.onDemand) : checkFilter(r.onDemand[k], doc))

\* The messages of one page: every hit for deltas (line 126); for actions the
\* hits that pass every on-demand filter (lines 201-215).
enqueuedMessages(r, hits) ==
    IF r.kind = "delta" THEN hits
    ELSE SelectSeq(hits, LAMBDA doc :
            \A k \in 1..Len(r.onDemand) : checkFilter(r.onDemand[k], doc))

\* Mutant: the rejection batch repeating the page instead of being empty.
TooLargeMessages_Repeat(r, hits) == enqueuedMessages(r, hits)

\* The batch emitted with 'Request too large!' (line 233): messages: [].
TooLargeMessages(r, hits) == << >>

\* Mutant: a loop that never notices a lost client.
socketConnected_Always(c) == TRUE

\* socket.connected (lines 122, 216)
socketConnected(c) == sock[c] = "connected"

\* Mutant: completion tested by overshoot only.
Complete_Overshoot(total, counter, hits) == counter > total

\* body['hits'].total.value === counter (lines 132, 222)
Complete(total, counter, hits) == total = counter

\* One iteration of the while loop on a page `hits` whose body reports
\* `total`, with socket.connected = conn. pc "scroll" awaits the next page
\* (one more call of elastic.scroll), pc "return" leaves the loop.
LoopIteration(r, hits, total, conn) ==
    LET counter == r.counter + Len(hits)
        r1 == [r EXCEPT !.counter = counter,
                        !.pages = @ + 1,
                        !.total = IF r.pages = 0 THEN total ELSE @]
        r2 == [r1 EXCEPT !.batches = Append(@, enqueuedMessages(r, hits))]
    IN  IF ~conn THEN [r1 EXCEPT !.pc = "return", !.lost = TRUE]
        ELSE IF Complete(total, counter, hits) THEN [r2 EXCEPT !.pc = "return"]
        ELSE IF r.kind = "delta"
             THEN [r2 EXCEPT !.pc = "scroll", !.fetches = @ + 1]
        ELSE IF r1.total < TooLarge
             THEN [r2 EXCEPT !.pc = "scroll", !.fetches = @ + 1]
        ELSE [r2 EXCEPT !.pc = "return",
                        !.batches = Append(@, TooLargeMessages(r, hits))]

\* ------------------------------------------------------------------------
\* Request handlers (delta_stream_request / action_stream_request, 278-302)
\* ------------------------------------------------------------------------

\* Mutant: history requested by either bound.
WantsHistory_AnyBound(data) == Truthy(data.start_from) \/ Truthy(data.read_until)

\* if (data.start_from) (lines 281, 294)
WantsHistory(data) == Truthy(data.start_from)

\* The request data of a client: the bounds, the filters and the match
\* fields of both stream kinds (lines 9-29).
Data(start_from, read_until, filters, kind) ==
    [start_from |-> start_from, read_until |-> read_until, filters |-> filters,
     code |-> IF kind = "delta" THEN "eosio.token" ELSE "",
     table |-> IF kind = "delta" THEN "accounts" ELSE "",
     scope |-> IF kind = "delta" THEN "*" ELSE "",
     payer |-> "",
     account |-> IF kind = "action" THEN "alice" ELSE "",
     contract |-> IF kind = "action" THEN "*" ELSE "",
     action |-> IF kind = "action" THEN "transfer" ELSE ""]

\* The data of a request that carries none.
NoData == Data(Num(0), Num(0), << >>, "")

\* A request as its handler first sees it.
NewRequest(c, kind, hasCb, hasData, data) ==
    [client |-> c, kind |-> kind, hasCb |-> hasCb, hasData |-> hasData,
     data |-> data, history |-> FALSE, pc |-> "new", err |-> "none",
     cb |-> "none", total |-> 0, counter |-> 0, pages |-> 0,
     batches |-> << >>, lost |-> FALSE,
     range |-> NoCall, must |-> << >>, fetches |-> 0, onDemand |-> << >>]

\* typeof callback === 'function' && data (lines 279, 292)
Accepted(r) == r.hasCb /\ r.hasData

\* Mutant: streamPastX started without being awaited.
AfterLoop_NoAwait(r) ==
    IF r.pc \in {"return", "head", "ranged"} THEN emitToRelay(r) ELSE r

\* The rest of the handler once streamPastX has returned (or was not
\* called): emitToRelay (lines 284, 297).
AfterLoop(r) == IF r.pc = "return" THEN emitToRelay(r) ELSE r

AfterLoopOut(r, id) == IF r.pc = "return" THEN emitToRelayOut(r, id) ELSE relayOut

\* streamPastX at its await of addBlockRangeOpts (lines 106, 153), once
\* addBlockRangeOpts has run to an await of get_info (pc "head") or to its
\* end (pc "ranged"): either way streamPastX resumes in a later step.
AfterRange(r) ==
    IF r.range.pc = "done" THEN [r EXCEPT !.pc = "ranged"]
    ELSE [r EXCEPT !.pc = "head"]

\* streamPastX from its await of addBlockRangeOpts to its await of the
\* initial search: the query is completed and the search is issued (lines
\* 107-118, 155-198).
issueSearch(r) ==
    [r EXCEPT !.pc = "search", !.fetches = 1,
              !.must = searchBody(r.kind, r.data, r.range.must),
              !.onDemand = IF r.kind = "action"
                           THEN onDemandFilters(r.data.filters)
                           ELSE << >>]

\* A stream request arrives on connected socket c. Without a callback or
\* data the handler does nothing; with a truthy start_from it enters
\* streamPastX, which runs addBlockRangeOpts and awaits it; otherwise it
\* registers at once.
StreamRequest(c, kind, hasCb, hasData, data) ==
    /\ sock[c] = "connected"
    /\ Len(reqs) < MaxReqs
    /\ LET r  == NewRequest(c, kind, hasCb, hasData, IF hasData THEN data ELSE NoData)
           id == Len(reqs) + 1
           r1 == IF ~Accepted(r) THEN [r EXCEPT !.pc = "ignored"]
                 ELSE IF WantsHistory(r.data)
                      THEN AfterRange([r EXCEPT !.history = TRUE,
                                 !.range = addBlockRangeOpts(r.data, << >>)])
                      ELSE [r EXCEPT !.pc = "return"]
       IN  /\ reqs' = Append(reqs, AfterLoop(r1))
           /\ relayOut' = AfterLoopOut(r1, id)
    /\ UNCHANGED <<relay, relay_restored, relay_down, nRelayEvents, statusLog,
                   sock, inbox>>
    /\ UNCHANGED <<nLive, rangeCall>>

\* get_info resolves with head_block_num = h while addBlockRangeOpts awaits
\* it for request id (lines 57, 71).
HeadResponse(id, h) ==
    /\ id \in 1..Len(reqs)
    /\ reqs[id].pc = "head"
    /\ LET r == reqs[id]
       IN  reqs' = [reqs EXCEPT ![id] =
                AfterRange([r EXCEPT !.range = getInfoResolved(r.range, h)])]
    /\ UNCHANGED <<relay, relay_restored, relay_down, nRelayEvents, statusLog,
                   relayOut, sock, inbox>>
    /\ UNCHANGED <<nLive, rangeCall>>

\* addBlockRangeOpts called on its own with an empty must list.
CallAddBlockRangeOpts(data) ==
    /\ rangeCall.pc = "none"
    /\ rangeCall' = addBlockRangeOpts(data, << >>)
    /\ UNCHANGED <<relay, relay_restored, relay_down, nRelayEvents, statusLog,
                   relayOut, sock, inbox, reqs, nLive>>

\* get_info resolves with head_block_num = h for that call.
GetInfoResponse(h) ==
    /\ rangeCall.pc \in {"get_info_start", "get_info_until"}
    /\ rangeCall' = getInfoResolved(rangeCall, h)
    /\ UNCHANGED <<relay, relay_restored, relay_down, nRelayEvents, statusLog,
                   relayOut, sock, inbox, reqs, nLive>>

\* get_info rejects: the call ends by rejecting, nothing is pushed.
GetInfoFail ==
    /\ rangeCall.pc \in {"get_info_start", "get_info_until"}
    /\ rangeCall' = [rangeCall EXCEPT !.pc = "rejected"]
    /\ UNCHANGED <<relay, relay_restored, relay_down, nRelayEvents, statusLog,
                   relayOut, sock, inbox, reqs, nLive>>

\* streamPastX resumes from its await of addBlockRangeOpts for request id
\* and issues the initial search (lines 106-118, 153-198).
ResumeStreamPast(id) ==
    /\ id \in 1..Len(reqs)
    /\ reqs[id].pc = "ranged"
    /\ reqs' = [reqs EXCEPT ![id] = issueSearch(@)]
    /\ UNCHANGED <<relay, relay_restored, relay_down, nRelayEvents, statusLog,
                   relayOut, sock, inbox>>
    /\ UNCHANGED <<nLive, rangeCall>>

\* The initial search resolves with a first page `hits` and a reported
\* `total` (lines 112-118, 192-198) and the loop runs on it, to its next
\* await of a scroll or to the return of streamPastX.
SearchResponse(id, total, hits) ==
    /\ id \in 1..Len(reqs)
    /\ reqs[id].pc = "search"
    /\ reqs' = [reqs EXCEPT ![id] =
                    LoopIteration(@, hits, total, socketConnected(@.client))]
    /\ UNCHANGED <<relay, relay_restored, relay_down, nRelayEvents, statusLog,
                   relayOut, sock, inbox>>
    /\ UNCHANGED <<nLive, rangeCall>>

\* A scroll resolves with a page `hits` and a reported `total` (lines
\* 137-143, 227-230) and the loop runs on it.
ScrollResponse(id, total, hits) ==
    /\ id \in 1..Len(reqs)
    /\ reqs[id].pc = "scroll"
    /\ reqs' = [reqs EXCEPT ![id] =
                    LoopIteration(@, hits, total, socketConnected(@.client))]
    /\ UNCHANGED <<relay, relay_restored, relay_down, nRelayEvents, statusLog,
                   relayOut, sock, inbox>>
    /\ UNCHANGED <<nLive, rangeCall>>

\* The handler resumes from its await of streamPastX for request id and
\* calls emitToRelay (lines 282-284, 295-297).
ResumeHandler(id) ==
    /\ id \in 1..Len(reqs)
    /\ reqs[id].pc = "return"
    /\ reqs' = [reqs EXCEPT ![id] = AfterLoop(@)]
    /\ relayOut' = AfterLoopOut(reqs[id], id)
    /\ UNCHANGED <<relay, relay_restored, relay_down, nRelayEvents, statusLog,
                   sock, inbox>>
    /\ UNCHANGED <<nLive, rangeCall>>

\* The awaited get_info, search or scroll rejects: the exception leaves
\* streamPastX and is caught and logged by the handler (lines 285-287,
\* 298-300).
BackendFail(id) ==
    /\ id \in 1..Len(reqs)
    /\ reqs[id].pc \in {"head", "search", "scroll"}
    /\ reqs' = [reqs EXCEPT ![id].pc = "failed", ![id].err = "backend"]
    /\ UNCHANGED <<relay, relay_restored, relay_down, nRelayEvents, statusLog,
                   relayOut, sock, inbox>>
    /\ UNCHANGED <<nLive, rangeCall>>

\* The relay acknowledges a registration: callback(response) (lines 377-379).
RelayAck(id) ==
    /\ id \in 1..Len(reqs)
    /\ reqs[id].pc = "ack"
    /\ relay.connected
    /\ reqs' = [reqs EXCEPT ![id].pc = "done", ![id].cb = "ack"]
    /\ UNCHANGED <<relay, relay_restored, relay_down, nRelayEvents, statusLog,
                   relayOut, sock, inbox>>
    /\ UNCHANGED <<nLive, rangeCall>>

\* ------------------------------------------------------------------------
\* Inputs
\* ------------------------------------------------------------------------

Kinds == {"delta", "action"}

StartFroms == {Num(0), Str(""), Num(100), Num(-5), Str("2020-01-01T00:00:00")}

ReadUntils == {Num(0), Str(""), Num(200), Num(-1)}

\* Values of head_block_num that get_info may report.
Heads == {0, 50}

FilterLists ==
    { << >>,
      <<[field |-> ActDataTo, value |-> "bob"]>>,
      <<[field |-> AtField, value |-> "x"], [field |-> ActDataTo, value |-> "bob"]>>,
      <<[field |-> ActName, value |-> "transfer"], [field |-> ActDataTo, value |-> ""]>>,
      <<[field |-> ActName, value |-> "transfer"], [field |-> ActDataTo, value |-> "bob"]>>,
      <<[field |-> ActDataTo, value |-> "*li*"], [field |-> ActName, value |-> "trans*"]>>,
      <<[field |-> ActDataTo, value |-> "bo*"]>> }

\* Relay events forwarded live, and the client ids they name: every local
\* id and 0, an id no connection of this server has.
LiveEvents == {"delta", "trace"}

LiveTargets == {0} \cup Clients

\* Bounds of a direct call of addBlockRangeOpts: each kind on either side.
RangeBounds == StartFroms \cup ReadUntils

RangeData == {Data(a, b, << >>, "delta") : a \in RangeBounds, b \in RangeBounds}

\* Requests of the backfill specification: every kind of bound and filter.
StreamData(kind) ==
    {Data(a, b, f, kind) :
        a \in StartFroms, b \in ReadUntils,
        f \in IF kind = "action" THEN FilterLists ELSE {<< >>}}

\* Result sizes of the backfill specification, around the page size and
\* around the size guard.
StreamTotals ==
    {0, 1}
    \cup {k * PageSize + d : k \in 1..MaxPages, d \in {-1, 0, 1}}
    \cup {TooLarge - 1, TooLarge, TooLarge + 1}

\* The answer of a backend whose result is fixed: the page that follows the
\* records request id has retrieved, under the total its search reported.
NextPage(id) == Page(reqs[id].total, reqs[id].counter)

\* Requests of the gateway specification: with and without history.
GatewayData(kind) ==
    {Data(a, Num(0), << >>, kind) : a \in {Num(0), Num(100)}}

GatewayTotals == {1, 21}

\* ------------------------------------------------------------------------
\* Specifications
\* ------------------------------------------------------------------------

\* The gateway: relay link, client connections and concurrent well-formed
\* stream requests. The handlers keep no state per client, so the requests
\* are those of one client while every client connects and disconnects.
Next ==
    \/ startRelay
    \/ RelayConnect
    \/ RelayDisconnect
    \/ \E c \in Clients : ClientConnect(c)
    \/ \E c \in Clients : ClientDisconnect(c)
    \/ \E kind \in Kinds : \E data \in GatewayData(kind) :
          StreamRequest(1, kind, TRUE, TRUE, data)
    \/ \E id \in 1..MaxReqs : ResumeStreamPast(id)
    \/ \E id \in 1..MaxReqs :
          SearchResponse(id, PageSize + 1, Page(PageSize + 1, 0))
    \/ \E id \in 1..Len(reqs) : ScrollResponse(id, reqs[id].total, NextPage(id))
    \/ \E id \in 1..MaxReqs : ResumeHandler(id)
    \/ \E id \in 1..MaxReqs : BackendFail(id)
    \/ \E id \in 1..MaxReqs : RelayAck(id)

Spec == Init /\ [][Next]_vars

\* The relay link and the client connections alone: every sequence of relay
\* events against every sequence of clients connecting and disconnecting.
NextRelay ==
    \/ startRelay
    \/ RelayConnect
    \/ RelayDisconnect
    \/ \E c \in Clients : ClientConnect(c)
    \/ \E c \in Clients : ClientDisconnect(c)

SpecRelay == Init /\ [][NextRelay]_vars

\* One client issuing one stream request, well-formed or not, under every
\* sequence of relay events, backend failures and its own disconnection.
NextLink ==
    \/ startRelay
    \/ RelayConnect
    \/ RelayDisconnect
    \/ ClientConnect(1)
    \/ ClientDisconnect(1)
    \/ \E kind \in Kinds, hasCb \in BOOLEAN, hasData \in BOOLEAN :
          \E data \in GatewayData(kind) :
             reqs = << >> /\ StreamRequest(1, kind, hasCb, hasData, data)
    \/ ResumeStreamPast(1)
    \/ \E total \in GatewayTotals : SearchResponse(1, total, Page(total, 0))
    \/ reqs # << >> /\ ScrollResponse(1, reqs[1].total, NextPage(1))
    \/ ResumeHandler(1)
    \/ BackendFail(1)
    \/ RelayAck(1)

SpecLink == Init /\ [][NextLink]_vars

\* One backfill in isolation: the relay is up and client 1 is connected.
InitStream ==
    /\ relay = [defined |-> TRUE, connected |-> TRUE]
    /\ relay_restored = TRUE
    /\ relay_down = FALSE
    /\ nRelayEvents = 1
    /\ statusLog = << >>
    /\ relayOut = <<RelayEvent("client_count", 0, 0, 1)>>
    /\ sock = [c \in Clients |-> IF c = 1 THEN "connected" ELSE "idle"]
    /\ inbox = [c \in Clients |-> IF c = 1 THEN <<"handshake">> ELSE << >>]
    /\ reqs = << >>
    /\ nLive = 0
    /\ rangeCall = NoCall

NextStream ==
    \/ \E kind \in Kinds, hasCb \in BOOLEAN, hasData \in BOOLEAN :
          \E data \in StreamData(kind) :
             reqs = << >> /\ StreamRequest(1, kind, hasCb, hasData, data)
    \/ \E h \in Heads : HeadResponse(1, h)
    \/ ResumeStreamPast(1)
    \/ \E total \in StreamTotals : SearchResponse(1, total, Page(total, 0))
    \/ reqs # << >> /\ ScrollResponse(1, reqs[1].total, NextPage(1))
    \/ ResumeHandler(1)
    \/ BackendFail(1)
    \/ RelayAck(1)
    \/ ClientDisconnect(1)

SpecStream == InitStream /\ [][NextStream]_vars

\* Live forwarding: relay events for any client id against clients
\* connecting and disconnecting and the relay link going up and down in
\* turn.
NextLive ==
    \/ startRelay
    \/ ~relay.connected /\ RelayConnect
    \/ relay.connected /\ RelayDisconnect
    \/ \E c \in Clients : ClientConnect(c)
    \/ \E c \in Clients : ClientDisconnect(c)
    \/ \E event \in LiveEvents, target \in LiveTargets : RelayLive(event, target)

SpecLive == Init /\ [][NextLive]_vars

\* addBlockRangeOpts as a function of its data and of the heads get_info
\* reports: one call at a time, on every pair of bounds.
NextRange ==
    \/ \E data \in RangeData : CallAddBlockRangeOpts(data)
    \/ \E h \in Heads : GetInfoResponse(h)
    \/ GetInfoFail

SpecRange == Init /\ [][NextRange]_vars

\* ------------------------------------------------------------------------
\* Observations used by the properties
\* ------------------------------------------------------------------------

RECURSIVE Flatten(_)
\* The concatenation of a sequence of batches.
Flatten(bs) == IF bs = << >> THEN << >> ELSE Head(bs) \o Flatten(Tail(bs))

\* A bound that is set: a non-empty string or a non-zero number.
IsBound(x) == (x.t = "string" /\ x.s # "") \/ (x.t = "number" /\ x.n # 0)

\* A bound that is a non-empty string.
StringBound(x) == x.t = "string" /\ x.s # ""

\* A bound that is a non-zero number.
NumberBound(x) == x.t = "number" /\ x.n # 0

\* The pages of a result of `total` records: ceil(total / PageSize), and one
\* (empty) page when there is none.
PagesOf(total) ==
    IF total = 0 THEN 1 ELSE (total + PageSize - 1) \div PageSize

Registrations == {"delta_request", "action_request"}

\* The loop of request r has been left: streamPastX has returned, and the
\* handler resumes or has resumed to register.
LoopLeft(r) == r.history /\ r.pages >= 1 /\ r.pc \in {"return", "ack", "done"}

\* In this step the handler of request id reaches emitToRelay.
ReachesEmitToRelay(id) ==
    /\ id <= Len(reqs')
    /\ id > Len(reqs) \/ reqs[id].pc = "return"
    /\ reqs'[id].pc \in {"ack", "done", "failed"}
    /\ reqs'[id].err # "backend"

\* ------------------------------------------------------------------------
\* Properties
\* ------------------------------------------------------------------------

\* C1: a relay 'disconnect' received while the link state is already Down
\* broadcasts no relay_down, so two consecutive disconnects broadcast one.
C1_DisconnectIdempotent ==
    [][(RelayDisconnect /\ relay_down) => statusLog' = statusLog]_vars

\* C2: the link starts Connected; a relay 'connect' while Connected
\* broadcasts nothing and leaves the state as it is; a 'connect' while Down
\* sets the state to Connected and broadcasts relay_restored exactly once.
C2_ConnectTransition ==
    /\ (relay_restored = TRUE /\ relay_down = FALSE)
    /\ [][RelayConnect =>
            IF relay_down
            THEN /\ relay_restored' = TRUE /\ relay_down' = FALSE
                 /\ statusLog' = Append(statusLog, "relay_restored")
            ELSE /\ UNCHANGED <<relay_restored, relay_down, statusLog, inbox>>
                 /\ relay_restored = TRUE]_vars

\* C2 witness: a first connect while Connected (no broadcast), a disconnect
\* and a connect while Down: three events, two broadcasts.
C2_Witness ==
    /\ nRelayEvents = 3
    /\ statusLog = <<"relay_down", "relay_restored">>
    /\ relay_restored /\ ~relay_down

\* C3: a backfill whose first page reports a total above 1000 emits exactly
\* one history batch, and that batch is empty.
C3_OversizedOneEmptyBatch ==
    \A id \in 1..Len(reqs) :
        LET r == reqs[id] IN
        (r.history /\ r.pages >= 1 /\ r.total > TooLarge) =>
            /\ \A k \in 1..Len(r.batches) : r.batches[k] = << >>
            /\ Len(r.batches) <= 1
            /\ (LoopLeft(r) /\ ~r.lost) => Len(r.batches) = 1

\* C4: with a first-page total of at most 1000, the client reachable
\* throughout and a fixed sorted result, the batches of a finished backfill
\* concatenate to every record that passes the on-demand filters, once each.
C4_CompleteWithinLimit ==
    \A id \in 1..Len(reqs) :
        LET r == reqs[id] IN
        (LoopLeft(r) /\ ~r.lost /\ r.total <= TooLarge) =>
            Flatten(r.batches) = enqueuedMessages(r, [i \in 1..r.total |-> i])

\* C5: within one backfill the emitted records are in non-decreasing
\* sort-key order and no record is emitted twice.
C5_OrderedNoDuplicates ==
    \A id \in 1..Len(reqs) :
        LET r   == reqs[id]
            out == Flatten(r.batches)
        IN  /\ \A i \in 1..(Len(out) - 1) :
                  SortKey(r.kind, out[i]) <= SortKey(r.kind, out[i + 1])
            /\ Cardinality({out[i] : i \in 1..Len(out)}) = Len(out)

\* C5 witness: a finished backfill of several non-empty batches.
C5_Witness ==
    \E id \in 1..Len(reqs) :
        /\ LoopLeft(reqs[id]) /\ reqs[id].counter = reqs[id].total
        /\ Len(reqs[id].batches) >= 3
        /\ \A k \in 1..Len(reqs[id].batches) : reqs[id].batches[k] # << >>

\* C6: every request that arrives with data and a callback has the callback
\* invoked. A handler that has ended without a registration awaiting its
\* acknowledgement can no longer invoke it, so (leaving aside requests
\* handled before startRelay) an ended handler has invoked the callback.
C6_CallbackInvoked ==
    \A id \in 1..Len(reqs) :
        LET r == reqs[id] IN
        (Accepted(r) /\ r.pc \in {"done", "failed"} /\ r.err # "TypeError")
            => r.cb # "none"

\* C7: registration attempted while the link is Down answers
\* STREAMING_OFFLINE at once and sends nothing to the relay, and
\* STREAMING_OFFLINE is answered only when the link state is Down.
C7_OfflineIffDown ==
    [][\A id \in 1..MaxReqs : ReachesEmitToRelay(id) =>
          /\ relay_down =>
                (reqs'[id].cb = "STREAMING_OFFLINE" /\ relayOut' = relayOut)
          /\ reqs'[id].cb = "STREAMING_OFFLINE" => relay_down]_vars

\* C7 as amended: registration attempted while the link is Down answers
\* STREAMING_OFFLINE at once and sends nothing to the relay, and
\* STREAMING_OFFLINE is answered exactly when the relay socket exists and is
\* not connected, which includes the time before its first 'connect', when
\* the link state is still the initial Connected.
C7_OfflineIffNotConnected ==
    [][\A id \in 1..MaxReqs : ReachesEmitToRelay(id) =>
          /\ relay_down =>
                (reqs'[id].cb = "STREAMING_OFFLINE" /\ relayOut' = relayOut)
          /\ reqs'[id].cb = "STREAMING_OFFLINE"
                <=> (relay.defined /\ ~relay.connected)
          /\ relayOut' # relayOut <=> (relay.defined /\ relay.connected)]_vars

\* C7 witness: a backfill ended while the link was Down and its request was
\* answered STREAMING_OFFLINE with no registration sent.
C7_Witness ==
    \E id \in 1..Len(reqs) :
        /\ reqs[id].cb = "STREAMING_OFFLINE" /\ reqs[id].pages >= 2
        /\ relay_down
        /\ \A k \in 1..Len(relayOut) : relayOut[k].type \notin Registrations

\* C8: the backfill is run iff start_from or read_until is set.
C8_HistoryIffAnyBound ==
    \A id \in 1..Len(reqs) :
        LET r == reqs[id] IN
        Accepted(r) =>
            (r.history <=> (IsBound(r.data.start_from) \/ IsBound(r.data.read_until)))

\* C8 as amended: the backfill is run iff start_from is a non-empty string
\* or a non-zero number; read_until alone starts none.
C8_HistoryIffStartFrom ==
    \A id \in 1..Len(reqs) :
        LET r == reqs[id] IN
        /\ Accepted(r) => (r.history <=> IsBound(r.data.start_from))
        /\ ~Accepted(r) => ~r.history

\* C8 witness: an accepted request that sets only read_until was registered
\* without any backfill.
C8_Witness ==
    \E id \in 1..Len(reqs) :
        /\ Accepted(reqs[id]) /\ ~reqs[id].history
        /\ ~IsBound(reqs[id].data.start_from) /\ IsBound(reqs[id].data.read_until)
        /\ reqs[id].pc \in {"ack", "done"} /\ reqs[id].batches = << >>

\* C9: once client_disconnected for a connection id was sent to the relay,
\* no registration carrying that id is sent afterwards.
C9_NoRegistrationAfterDisconnect ==
    \A i, j \in 1..Len(relayOut) :
        (i < j /\ relayOut[i].type = "client_disconnected"
               /\ relayOut[j].type \in Registrations)
            => relayOut[i].client # relayOut[j].client

\* C10: the registrations sent for one (connection id, kind) of a connected
\* client are sent in the order their requests were issued, so the last one
\* sent is the one of the most recently issued request.
C10_NewestRegistrationLast ==
    \A i, j \in 1..Len(relayOut) :
        (i < j /\ relayOut[i].type \in Registrations
               /\ relayOut[j].type = relayOut[i].type
               /\ relayOut[j].client = relayOut[i].client
               /\ sock[relayOut[i].client] = "connected")
            => relayOut[i].req < relayOut[j].req

\* C11: a request is registered (or answered STREAMING_OFFLINE) only once
\* its backfill has finished: a request with history has then consumed at
\* least one page and has no fetch outstanding, a request without history
\* has no batch and no fetch, and from then on no batch is added and no
\* fetch is issued for it.
C11_RegisteredAfterBackfill ==
    /\ [](/\ \A id \in 1..Len(reqs) :
               LET r == reqs[id] IN
               r.pc \in {"ack", "done"} =>
                   IF r.history
                   THEN r.pages >= 1 /\ r.fetches = r.pages
                   ELSE r.batches = << >> /\ r.fetches = 0
          /\ \A k \in 1..Len(relayOut) :
               relayOut[k].type \in Registrations =>
                   reqs[relayOut[k].req].pc \in {"ack", "done"})
    /\ [][\A id \in 1..Len(reqs) :
            reqs[id].pc \in {"ack", "done"} =>
                /\ reqs'[id].batches = reqs[id].batches
                /\ reqs'[id].fetches = reqs[id].fetches]_vars

\* C11 witness: a backfill of two pages ended, both batches were emitted and
\* the registration of the request is the last event sent to the relay.
C11_Witness ==
    \E id \in 1..Len(reqs) :
        /\ reqs[id].history /\ reqs[id].pages = 2 /\ Len(reqs[id].batches) = 2
        /\ reqs[id].pc = "ack"
        /\ relayOut # << >>
        /\ relayOut[Len(relayOut)].type \in Registrations
        /\ relayOut[Len(relayOut)].req = id

\* C12: once a backfill loop has observed its client not connected it issues
\* no further fetch, emits no further batch and ends without an error; no
\* batch is emitted while the client is disconnected, and a fetch issued
\* while the client is disconnected is the first of its backfill (the search
\* that follows a head lookup), so at most one is issued after a disconnect.
C12_LostClientStops ==
    /\ [](\A id \in 1..Len(reqs) :
            LET r == reqs[id] IN
            r.lost => /\ r.pc \in {"return", "ack", "done"}
                      /\ r.err = "none"
                      /\ r.fetches = r.pages)
    /\ [][\A id \in 1..Len(reqs) :
            LET r == reqs[id] IN
            /\ r.lost => /\ reqs'[id].batches = r.batches
                         /\ reqs'[id].fetches = r.fetches
            /\ sock[r.client] # "connected" =>
                   /\ reqs'[id].batches = r.batches
                   /\ reqs'[id].fetches # r.fetches =>
                         (r.fetches = 0 /\ reqs'[id].fetches = 1)]_vars

\* C12 witness: the client was lost on the second page of a larger result:
\* one batch was emitted, two fetches were issued and the backfill ended.
C12_Witness ==
    \E id \in 1..Len(reqs) :
        /\ reqs[id].lost /\ reqs[id].pages = 2 /\ reqs[id].fetches = 2
        /\ Len(reqs[id].batches) = 1
        /\ reqs[id].counter < reqs[id].total
        /\ reqs[id].pc \in {"ack", "done"}
        /\ sock[reqs[id].client] = "disconnected"

\* C13: in a finished addBlockRangeOpts a negative bound is head + value,
\* and whatever the head (0 included) it was looked up once when a bound is
\* negative, the one head serving both bounds, and never otherwise.
C13_HeadLookedUpOnce ==
    rangeCall.pc = "done" =>
        LET negStart == NumberBound(rangeCall.start_from) /\ rangeCall.start_from.n < 0
            negUntil == NumberBound(rangeCall.read_until) /\ rangeCall.read_until.n < 0
        IN  /\ rangeCall.lookups = IF negStart \/ negUntil THEN 1 ELSE 0
            /\ negStart => rangeCall.blockRange.gte =
                               Num(rangeCall.head.n + rangeCall.start_from.n)
            /\ negUntil => rangeCall.blockRange.lte =
                               Num(rangeCall.head.n + rangeCall.read_until.n)

\* C14: a finished addBlockRangeOpts has pushed exactly one timestamp range
\* iff a bound is a non-empty string and exactly one block range iff a bound
\* is a non-zero number, nothing else, the timestamp range first; each side
\* of a range is set iff its bound is of the range's kind, so a zero or
\* empty bound constrains nothing.
C14_RangeClauses ==
    rangeCall.pc = "done" =>
        LET a    == rangeCall.start_from
            b    == rangeCall.read_until
            must == rangeCall.must
            T    == {k \in 1..Len(must) : must[k].name = "@timestamp"}
            B    == {k \in 1..Len(must) : must[k].name = "block_num"}
        IN  /\ \A k \in 1..Len(must) : must[k].clause = "range" /\ k \in T \cup B
            /\ Cardinality(T) = IF StringBound(a) \/ StringBound(b) THEN 1 ELSE 0
            /\ Cardinality(B) = IF NumberBound(a) \/ NumberBound(b) THEN 1 ELSE 0
            /\ \A k \in T : /\ must[k].gte = IF StringBound(a) THEN a ELSE None
                            /\ must[k].lte = IF StringBound(b) THEN b ELSE None
                            /\ k = 1
            /\ \A k \in B : /\ (must[k].gte # None) <=> NumberBound(a)
                            /\ (must[k].lte # None) <=> NumberBound(b)
                            /\ (NumberBound(a) /\ a.n > 0) => must[k].gte = a
                            /\ (NumberBound(b) /\ b.n > 0) => must[k].lte = b

\* C14 witness: a call with a timestamp start and a block end has pushed
\* both ranges, each with one side set.
C14_Witness ==
    /\ rangeCall.pc = "done"
    /\ StringBound(rangeCall.start_from) /\ NumberBound(rangeCall.read_until)
    /\ Len(rangeCall.must) = 2
    /\ rangeCall.must[1].name = "@timestamp" /\ rangeCall.must[1].lte = None
    /\ rangeCall.must[2].name = "block_num" /\ rangeCall.must[2].gte = None

\* C15: once the query of an action backfill is built, every FieldFilter of
\* the request is in exactly one stage, pushed as a term of the query or
\* kept on demand, and a filter on an act.data field is on demand.
C15_FilterRoutedOnce ==
    \A id \in 1..Len(reqs) :
        LET r == reqs[id] IN
        (r.kind = "action" /\ r.fetches >= 1) =>
            \A k \in 1..Len(r.data.filters) :
                LET f      == r.data.filters[k]
                    pushed == \E j \in 1..Len(r.must) :
                                 /\ r.must[j].clause = "term" /\ r.must[j].name = ""
                                 /\ r.must[j].field = f.field
                                 /\ r.must[j].value = f.value
                    held   == \E j \in 1..Len(r.onDemand) : r.onDemand[j] = f
                IN  /\ pushed # held
                    /\ StartsWith(f.field, ActDataPrefix) => held

\* The k-th batch of request r holds exactly the records of its k-th page
\* that checkFilter accepts for every on-demand filter, and the whole page
\* when the request has no on-demand filter.
FilteredPage(r, k) ==
    LET page == Page(r.total, (k - 1) * PageSize)
        b    == r.batches[k]
        ok(doc) == \A j \in 1..Len(r.onDemand) : checkFilter(r.onDemand[j], doc)
    IN  /\ \A i \in 1..Len(b) :
              ok(b[i]) /\ \E n \in 1..Len(page) : page[n] = b[i]
        /\ \A n \in 1..Len(page) :
              ok(page[n]) => \E i \in 1..Len(b) : b[i] = page[n]
        /\ r.onDemand = << >> => b = page

\* C16: every record in a batch of an action backfill is a record of the
\* batch's page that satisfies every on-demand filter, and every retrieved
\* record that satisfies all of them (every retrieved record when there is
\* none) is in the batch of its page.
C16_EveryRetrievedDelivered ==
    \A id \in 1..Len(reqs) :
        LET r == reqs[id]
            ok(doc) == \A j \in 1..Len(r.onDemand) : checkFilter(r.onDemand[j], doc)
        IN  r.kind = "action" =>
            \A k \in 1..r.pages :
                LET page == Page(r.total, (k - 1) * PageSize) IN
                /\ k <= Len(r.batches) => FilteredPage(r, k)
                /\ \A n \in 1..Len(page) :
                      ok(page[n]) =>
                          /\ k <= Len(r.batches)
                          /\ \E i \in 1..Len(r.batches[k]) : r.batches[k][i] = page[n]

\* C16 as amended: every page retrieved while the client is connected has
\* its batch, holding exactly the records of the page that satisfy every
\* on-demand filter (all of them when there is none); the page on which the
\* loop finds the client disconnected is the last one retrieved and has no
\* batch, so none of its records is delivered.
C16_ConnectedPagesFiltered ==
    \A id \in 1..Len(reqs) :
        LET r == reqs[id] IN
        r.kind = "action" =>
            \A k \in 1..r.pages :
                IF r.lost /\ k = r.pages
                THEN Len(r.batches) = k - 1
                ELSE k <= Len(r.batches) /\ FilteredPage(r, k)

\* C16 witness: under two on-demand filters the first page gave a batch of
\* some of its records; the client was lost on the second page, which holds
\* a record that satisfies both filters and has no batch.
C16_Witness ==
    \E id \in 1..Len(reqs) :
        LET r == reqs[id] IN
        /\ r.kind = "action" /\ Len(r.onDemand) = 2
        /\ r.lost /\ r.pages = 2 /\ Len(r.batches) = 1
        /\ Len(r.batches[1]) \in 1..(PageSize - 1)
        /\ \E n \in 1..Len(Page(r.total, PageSize)) :
              \A j \in 1..2 : checkFilter(r.onDemand[j], Page(r.total, PageSize)[n])

\* C17: a relay 'delta' or 'trace' event adds one message of its type,
\* tagged live, to the connection whose id is the event's client id if this
\* server holds it connected, and nothing to any other connection; when it
\* holds none, nothing is emitted and no state of the gateway changes.
C17_LiveToTargetOnly ==
    [][\A event \in LiveEvents, target \in LiveTargets :
          RelayLive(event, target) =>
              /\ \A c \in Clients \ {target} : inbox'[c] = inbox[c]
              /\ (target \in Clients /\ sock[target] = "connected") =>
                    inbox'[target] = Append(inbox[target],
                        IF event = "delta" THEN "live delta_trace"
                        ELSE "live action_trace")
              /\ ~(target \in Clients /\ sock[target] = "connected") =>
                    inbox' = inbox
              /\ UNCHANGED <<relay, relay_restored, relay_down, statusLog,
                             relayOut, sock, reqs>>]_vars

\* C17 witness: two live events were handled while clients 1 and 2 were
\* connected; one reached client 1 and the other reached nobody.
C17_Witness ==
    /\ nLive = 2
    /\ sock[1] = "connected" /\ sock[2] = "connected"
    /\ inbox[1] = <<"handshake", "live delta_trace">>
    /\ inbox[2] = <<"handshake">>

\* C18: a status broadcast is appended to the messages of every client
\* connected at that time and of no other; a connecting client receives its
\* handshake only; and no client receives anything else between broadcasts,
\* so a client that connects after a broadcast sees no status before the
\* next relay transition.
C18_StatusToConnectedOnly ==
    [][/\ \A c \in Clients :
            ClientConnect(c) =>
                /\ inbox'[c] = <<"handshake">>
                /\ \A d \in Clients \ {c} : inbox'[d] = inbox[d]
       /\ statusLog' # statusLog =>
            \E s \in {"relay_down", "relay_restored"} :
                /\ statusLog' = Append(statusLog, s)
                /\ \A c \in Clients :
                      inbox'[c] = IF sock[c] = "connected"
                                  THEN Append(inbox[c], s) ELSE inbox[c]
       /\ \A c \in Clients :
            inbox'[c] # inbox[c] => (statusLog' # statusLog \/ ClientConnect(c))]_vars

\* C18 witness: client 1 received relay_down; client 2 connected afterwards,
\* while the link is still down, and holds its handshake only.
C18_Witness ==
    /\ relay_down
    /\ statusLog = <<"relay_down">>
    /\ inbox[1] = <<"handshake", "relay_down">>
    /\ sock[2] = "connected" /\ inbox[2] = <<"handshake">>

\* C19: a backfill has at most one fetch outstanding, and none unless it
\* awaits one; against a result of fixed total it issues at most
\* ceil(total / 20) fetches (one when the total is 0), and once it has
\* consumed that many pages it has left its loop.
C19_BoundedFetches ==
    \A id \in 1..Len(reqs) :
        LET r == reqs[id] IN
        r.history =>
            /\ r.fetches - r.pages \in {0, 1}
            /\ r.pc \in {"search", "scroll"} => r.fetches = r.pages + 1
            /\ r.pc \in {"head", "ranged", "return", "ack", "done"} =>
                  r.fetches = r.pages
            /\ r.pages >= 1 =>
                  /\ r.fetches <= PagesOf(r.total)
                  /\ r.pages = PagesOf(r.total) =>
                        r.pc \in {"return", "ack", "done"}

\* C19 witness: a delta backfill of 41 records ended after three fetches.
C19_Witness ==
    \E id \in 1..Len(reqs) :
        /\ reqs[id].kind = "delta" /\ reqs[id].total = 2 * PageSize + 1
        /\ reqs[id].fetches = 3 /\ reqs[id].pages = 3
        /\ reqs[id].counter = reqs[id].total
        /\ reqs[id].pc = "done"

\* C20: the two health flags are never both true nor both false, and a step
\* that changes either of them is a relay 'connect' or 'disconnect' event.
C20_FlagsExclusive ==
    /\ [](relay_down # relay_restored)
    /\ [][(relay_down' # relay_down \/ relay_restored' # relay_restored) =>
              (RelayConnect \/ RelayDisconnect)]_vars

\* C20 witness: after a backfill and a registration, a client disconnect and
\* three relay events, the link is Down with relay_restored false.
C20_Witness ==
    /\ relay_down /\ ~relay_restored
    /\ nRelayEvents = MaxRelayEvents
    /\ sock[1] = "disconnected"
    /\ \E id \in 1..Len(reqs) : reqs[id].pages >= 2 /\ reqs[id].pc = "done"

====
